---- MODULE Spec2Model ----
(***************************************************************************)
(* Model of the multi-run sandbox benchmark (sandbox.ts): the statistics   *)
(* helpers, BenchmarkRunner.runMultiple / calculateResult, the reporter    *)
(* printResults and the driver runBenchmark.                               *)
(*                                                                         *)
(* An action is one synchronous stretch of the program between two awaits  *)
(* (the event loop runs such a stretch to completion).                     *)
(*                                                                         *)
(* JavaScript numbers are modelled exactly: a number is a record           *)
(* [n, d, rad] standing for n/d (rad = FALSE) or sqrt(n/d) (rad = TRUE),   *)
(* kept in lowest terms; d = 0 stands for NaN (the value of 0/0).          *)
(* The capture timestamp of a run (new Date()) is left out of the run      *)
(* records: nothing in the program reads it.                               *)
(***************************************************************************)
EXTENDS Integers, Sequences, FiniteSets, TLC

\* ---------------------------------------------------------------- bounds
\* largest configured run count explored by the single-sweep specification
MaxRunCount == 4
\* largest configured run count explored by the whole-program specification
MaxDriverRunCount == 2
\* largest configured run count behind the results handed to the reporter
MaxReportRunCount == 2
\* the argument limit of the scaled-down engine of the escape specification,
\* where the run counts are as small as MaxDriverRunCount
MaxEscapeArguments == 1

\* ------------------------------------------------------------- the state
VARIABLES
  config,      \* the BenchmarkConfig read at startup
  pc,          \* where the program is suspended: "call", "await", "delay",
               \* "returned", "threw", "report", "done"
  prov,        \* index in Providers of the sweep the driver is at
  i,           \* runMultiple: the loop index
  runs,        \* runMultiple: const runs
  failedRuns,  \* runMultiple: const failedRuns
  ret,         \* the BenchmarkResult runMultiple resolved with
  results,     \* runBenchmark: const results
  inflight,    \* sample-source invocations started and not yet settled
  log,         \* what the sweeps did, in order: invocations, settlements,
               \* delays and the console lines of runMultiple
  report,      \* the console lines of the reporting step
  maxArguments \* the most arguments the engine accepts in one call

vars == <<config, pc, prov, i, runs, failedRuns, ret, results, inflight, log, report,
          maxArguments>>

\* ------------------------------------------------------------- numbers
RECURSIVE Gcd(_, _)
Gcd(a, b) == IF b = 0 THEN a ELSE Gcd(b, a % b)

Abs(x) == IF x < 0 THEN -x ELSE x

NaN == [n |-> 0, d |-> 0, rad |-> FALSE]

\* the number p/q in lowest terms; 0/0 is NaN as in JavaScript
Frac(p, q) ==
  IF q = 0 THEN NaN
  ELSE LET g == Gcd(Abs(p), Abs(q))
           s == IF q < 0 THEN -1 ELSE 1
       IN [n |-> (s * p) \div g, d |-> (s * q) \div g, rad |-> FALSE]

Num(x) == Frac(x, 1)
Zero == Num(0)
One == Num(1)

\* arithmetic on rational numbers (rad = FALSE)
Add(a, b) == Frac(a.n * b.d + b.n * a.d, a.d * b.d)
Sub(a, b) == Frac(a.n * b.d - b.n * a.d, a.d * b.d)
Mul(a, b) == Frac(a.n * b.n, a.d * b.d)
DivInt(a, k) == IF a.d = 0 THEN NaN ELSE Frac(a.n, a.d * k)

ISqrt(x) == CHOOSE k \in 0..x : k * k <= x /\ (k + 1) * (k + 1) > x
IsSquare(x) == ISqrt(x) * ISqrt(x) = x

\* Math.sqrt of a non-negative rational number
Sqrt(a) ==
  IF IsSquare(a.n) /\ IsSquare(a.d)
  THEN [n |-> ISqrt(a.n), d |-> ISqrt(a.d), rad |-> FALSE]
  ELSE [n |-> a.n, d |-> a.d, rad |-> TRUE]

\* the square of a number, as a rational
Square(a) == IF a.rad THEN [n |-> a.n, d |-> a.d, rad |-> FALSE] ELSE Mul(a, a)

\* a < b on non-negative numbers (false when either is NaN, as in JavaScript)
Less(a, b) ==
  /\ a.d # 0
  /\ b.d # 0
  /\ Square(a).n * Square(b).d < Square(b).n * Square(a).d

\* a > 0  (result.successRate > 0)
Positive(a) == a.d # 0 /\ a.n > 0

\* ------------------------------------------------- StatisticsCalculator
RECURSIVE SumSeq(_)
SumSeq(values) ==
  IF Len(values) = 0 THEN Zero ELSE Add(Head(values), SumSeq(Tail(values)))

calculateMean(values) ==
  IF Len(values) = 0 THEN Zero ELSE DivInt(SumSeq(values), Len(values))

calculateStandardDeviation(values) ==
  IF Len(values) = 0 THEN Zero
  ELSE LET mean == calculateMean(values)
           squaredDiffs == [k \in 1..Len(values) |->
                              Mul(Sub(values[k], mean), Sub(values[k], mean))]
           variance == calculateMean(squaredDiffs)
       IN Sqrt(variance)

calculateMin(values) ==
  IF Len(values) > 0
  THEN CHOOSE v \in {values[k] : k \in 1..Len(values)} :
         \A k \in 1..Len(values) : ~Less(values[k], v)
  ELSE Zero

calculateMax(values) ==
  IF Len(values) > 0
  THEN CHOOSE v \in {values[k] : k \in 1..Len(values)} :
         \A k \in 1..Len(values) : ~Less(v, values[k])
  ELSE Zero

\* ------------------------------------------------------- sequence helpers
IsSuccess(r) == r.success

Dims == {"sandboxCreationTime", "fileCreationTime", "totalTime"}

\* successfulRuns.map((r) => r.<dim>)
Times(rs, dim) == [k \in 1..Len(rs) |-> Num(rs[k][dim])]

\* --------------------------------------------------- calculateResult
\* an aggregation over all runs, failed ones included
successfulRunsUnfiltered(rs) == rs

\* runs.filter((r) => r.success)
successfulRunsOf(rs) == SelectSeq(rs, IsSuccess)

ZeroDims == [dim \in Dims |-> Zero]

\* a rate over the configured run count instead of the attempted runs
successRateOverConfigured(successfulRuns, rs) ==
  Frac(Len(successfulRuns), config.runCount)

\* successfulRuns.length / runs.length
successRateOf(successfulRuns, rs) == Frac(Len(successfulRuns), Len(rs))

\* an aggregation without the early return for an empty successful subset
calculateResultUnguarded(providerName, rs, fs) ==
  LET successfulRuns == successfulRunsOf(rs) IN
  [name |-> providerName,
   runs |-> rs,
   averages |-> [dim \in Dims |-> calculateMean(Times(successfulRuns, dim))],
   statistics |->
     [standardDeviation |->
        [dim \in Dims |-> calculateStandardDeviation(Times(successfulRuns, dim))],
      min |-> [dim \in Dims |-> calculateMin(Times(successfulRuns, dim))],
      max |-> [dim \in Dims |-> calculateMax(Times(successfulRuns, dim))]],
   successRate |-> successRateOf(successfulRuns, rs),
   totalRuns |-> Len(rs),
   failedRuns |-> fs]

calculateResult(providerName, rs, fs) ==
  LET successfulRuns == successfulRunsOf(rs) IN
  IF Len(successfulRuns) = 0
  THEN [name |-> providerName,
        runs |-> rs,
        averages |-> ZeroDims,
        statistics |-> [standardDeviation |-> ZeroDims,
                        min |-> ZeroDims,
                        max |-> ZeroDims],
        successRate |-> Zero,
        totalRuns |-> Len(rs),
        failedRuns |-> fs]
  ELSE [name |-> providerName,
        runs |-> rs,
        averages |-> [dim \in Dims |-> calculateMean(Times(successfulRuns, dim))],
        statistics |->
          [standardDeviation |->
             [dim \in Dims |-> calculateStandardDeviation(Times(successfulRuns, dim))],
           min |-> [dim \in Dims |-> calculateMin(Times(successfulRuns, dim))],
           max |-> [dim \in Dims |-> calculateMax(Times(successfulRuns, dim))]],
        successRate |-> successRateOf(successfulRuns, rs),
        totalRuns |-> Len(rs),
        failedRuns |-> fs]

\* ------------------------------------------------------------ the inputs
\* the three providers, in the order runBenchmark sweeps them
Providers == <<"E2B", "Daytona", "Blaxel">>

\* default of BENCHMARK_DELAY_MS
DefaultDelayMs == 1000

\* value of an absent error field
NoError == "undefined"

\* what a sample source can return: two different successful samples and a
\* failure as the repository's sample sources report it (zero provisioning
\* and file time, the elapsed total time, the error text)
okA == [sandboxCreationTime |-> 2, fileCreationTime |-> 1, totalTime |-> 4,
        success |-> TRUE, error |-> NoError]
okB == [sandboxCreationTime |-> 6, fileCreationTime |-> 3, totalTime |-> 10,
        success |-> TRUE, error |-> NoError]
failedSample == [sandboxCreationTime |-> 0, fileCreationTime |-> 0, totalTime |-> 12,
                 success |-> FALSE, error |-> "provider error"]
Samples == {okA, okB, failedSample}

\* what a sample source can throw or reject with: an Error object, or a
\* value that is not an Error (str is what String(value) gives)
Thrown == {[isError |-> TRUE, message |-> "boom", str |-> "Error: boom"],
           [isError |-> FALSE, message |-> NoError, str |-> "timeout"]}

\* loadBenchmarkConfig: nothing validates the values read from the environment
ConfigsUpTo(maxRuns) ==
  [runCount : -1..maxRuns, delayBetweenRuns : {0, DefaultDelayMs},
   failFast : BOOLEAN, verbose : BOOLEAN]

providerName == Providers[prov]

\* an entry of the log; ok is the success flag of the sample a fulfilled
\* invocation returned, info is the value a rejected invocation threw
NoInfo == [isError |-> FALSE, message |-> NoError, str |-> ""]
EvInfo(kind, k, ok, info) ==
  [kind |-> kind, name |-> providerName, run |-> k, ok |-> ok, info |-> info]
Ev(kind, k) == EvInfo(kind, k, TRUE, NoInfo)

NoResult == calculateResult("", <<>>, <<>>)

\* the most arguments one call can take in JavaScriptCore, the engine of
\* the Bun runtime the program is written for
ArgumentLimit == 65536

\* ---------------------------------------------------------- runMultiple
\* the BenchmarkRun built from a returned sample (lines 43-51)
MakeRun(k, singleResult) ==
  [runNumber |-> k,
   sandboxCreationTime |-> singleResult.sandboxCreationTime,
   fileCreationTime |-> singleResult.fileCreationTime,
   totalTime |-> singleResult.totalTime,
   success |-> singleResult.success,
   error |-> singleResult.error]

\* error instanceof Error ? error.message : String(error)
ErrorText(error) == IF error.isError THEN error.message ELSE error.str

\* the BenchmarkRun built in the catch block (lines 76-84)
CaughtRun(k, error) ==
  [runNumber |-> k,
   sandboxCreationTime |-> 0,
   fileCreationTime |-> 0,
   totalTime |-> 0,
   success |-> FALSE,
   error |-> ErrorText(error)]

\* a loop that stops one iteration early
LoopCondStrict(k) == k < config.runCount

\* the loop condition i <= this.config.runCount
LoopCond(k) == k <= config.runCount

\* a runner that forgets to record a failed run that was returned
PushFailedNever(fs, run) == fs

\* if (!run.success) failedRuns.push(run)
PushFailed(fs, run) == IF ~run.success THEN Append(fs, run) ELSE fs

\* if (!run.success) { ... if (this.config.failFast) break }
BreakInTry(run) == ~run.success /\ config.failFast

\* a catch block without the fail-fast break
BreakInCatchNever == FALSE

\* if (this.config.failFast) break, in the catch block
BreakInCatch == config.failFast

\* a catch block that rethrows what is not an Error object
CatchesOnlyErrors(error) == error.isError

\* the try block encloses the invocation, and catch (error) takes whatever
\* it throws or rejects with
Catches(error) == TRUE

\* a loop that steps over an index
NextIndexSkipping(k) == k + 2

\* the i++ of the loop
NextIndex(k) == k + 1

\* i < this.config.runCount && this.config.delayBetweenRuns > 0
DelayCond(k) == k < config.runCount /\ config.delayBetweenRuns > 0

\* the progress signal of a run: a line in verbose mode, a symbol otherwise
Progress(run) ==
  IF config.verbose
  THEN Ev("progress-line", run.runNumber)
  ELSE Ev("progress-symbol", run.runNumber)

\* Math.min(...values), Math.max(...values): the spread passes one argument
\* per value, and a call with more arguments than the engine accepts throws
\* a RangeError
SpreadThrows(values) == Len(values) > maxArguments

\* calculateResult throws where calculateMin is first called on the values
\* of the successful runs (line 150); no try block encloses the call
calculateResultThrows(rs) == SpreadThrows(Times(successfulRunsOf(rs), "sandboxCreationTime"))

\* after the loop (lines 92-98): the summary line unless verbose, and the
\* promise of runMultiple resolves with calculateResult, or rejects with
\* what calculateResult threw
Finish(k, rs, fs, fl, lg) ==
  LET printed == IF ~config.verbose THEN Append(lg, Ev("summary", Len(rs))) ELSE lg IN
  /\ i' = k
  /\ runs' = rs
  /\ failedRuns' = fs
  /\ inflight' = fl
  /\ IF calculateResultThrows(rs)
     THEN /\ log' = printed
          /\ ret' = ret
          /\ pc' = "threw"
     ELSE /\ log' = Append(printed, Ev("return", Len(rs)))
          /\ ret' = calculateResult(providerName, rs, fs)
          /\ pc' = "returned"

\* the head of iteration k: test the loop condition, invoke the sample
\* source and suspend on its promise (lines 40-42), or leave the loop
Iterate(k, rs, fs, fl, lg) ==
  IF LoopCond(k)
  THEN /\ i' = k
       /\ runs' = rs
       /\ failedRuns' = fs
       /\ inflight' = fl \cup {[name |-> providerName, run |-> k]}
       /\ log' = Append(lg, Ev("invoke", k))
       /\ ret' = ret
       /\ pc' = "await"
  ELSE Finish(k, rs, fs, fl, lg)

\* a loop that goes on while its invocation is still in flight
SettledNever(fl, k) == fl

\* the invocations still in flight once the awaited one has settled
Settled(fl, k) == fl \ {[name |-> providerName, run |-> k]}

\* runMultiple is called (lines 35-42)
Enter ==
  /\ pc = "call"
  /\ Iterate(1, <<>>, <<>>, inflight, Append(log, Ev("start", 0)))
  /\ UNCHANGED <<config, prov, results, report, maxArguments>>

\* await benchmarkFn() resolves with singleResult (lines 43-74, then 40-42)
SampleReturns(singleResult) ==
  /\ pc = "await"
  /\ LET run == MakeRun(i, singleResult)
         rs == Append(runs, run)
         fs == PushFailed(failedRuns, run)
         fl == Settled(inflight, i)
         lg == Append(log, EvInfo("fulfilled", i, singleResult.success, NoInfo))
     IN IF BreakInTry(run)
        THEN Finish(i, rs, fs, fl, Append(lg, Ev("failfast-line", i)))
        ELSE IF DelayCond(i)
             THEN /\ runs' = rs
                  /\ failedRuns' = fs
                  /\ inflight' = fl
                  /\ log' = lg \o <<Progress(run), Ev("delay", i)>>
                  /\ pc' = "delay"
                  /\ UNCHANGED <<i, ret>>
             ELSE Iterate(NextIndex(i), rs, fs, fl, Append(lg, Progress(run)))
  /\ UNCHANGED <<config, prov, results, report, maxArguments>>

\* await benchmarkFn() throws or rejects (lines 75-89, then 40-42); an
\* error the catch block did not take would reject the promise of runMultiple
SampleThrows(error) ==
  /\ pc = "await"
  /\ LET run == CaughtRun(i, error)
         rs == Append(runs, run)
         fs == Append(failedRuns, run)
         fl == Settled(inflight, i)
         lg == Append(log, EvInfo("rejected", i, FALSE, error))
     IN IF ~Catches(error)
        THEN /\ pc' = "threw"
             /\ inflight' = fl
             /\ log' = lg
             /\ UNCHANGED <<i, runs, failedRuns, ret>>
        ELSE IF BreakInCatch
             THEN Finish(i, rs, fs, fl, lg)
             ELSE Iterate(NextIndex(i), rs, fs, fl, lg)
  /\ UNCHANGED <<config, prov, results, report, maxArguments>>

\* await this.delay(...) resolves (line 73, then 40-42)
DelayElapsed ==
  /\ pc = "delay"
  /\ Iterate(NextIndex(i), runs, failedRuns, inflight, log)
  /\ UNCHANGED <<config, prov, results, report, maxArguments>>

Fulfilled == \E singleResult \in Samples : SampleReturns(singleResult)
Rejected == \E error \in Thrown : SampleThrows(error)

\* ------------------------------------------- the single-sweep specification
\* one call of runMultiple, for any provider and any configuration
SweepInit ==
  /\ config \in ConfigsUpTo(MaxRunCount)
  /\ pc = "call"
  /\ prov \in 1..Len(Providers)
  /\ i = 0
  /\ runs = <<>>
  /\ failedRuns = <<>>
  /\ ret = NoResult
  /\ results = <<>>
  /\ inflight = {}
  /\ log = <<>>
  /\ report = <<>>
  /\ maxArguments = ArgumentLimit

SweepNext == Enter \/ Fulfilled \/ Rejected \/ DelayElapsed

SweepSpec == SweepInit /\ [][SweepNext]_vars

\* ------------------------------------------------------------ formatting
\* Math.round of a non-negative rational number
Round(a) == (2 * a.n + a.d) \div (2 * a.d)

\* the digits of ms.toFixed(2): the number of hundredths nearest to ms
Hundredths(a) ==
  IF a.rad
  THEN CHOOSE k \in 0..(100 * (ISqrt(a.n \div a.d) + 1)) :
         /\ (k = 0 \/ (2 * k - 1) * (2 * k - 1) * a.d <= 40000 * a.n)
         /\ 40000 * a.n < (2 * k + 1) * (2 * k + 1) * a.d
  ELSE (200 * a.n + a.d) \div (2 * a.d)

\* formatTime(ms): the text `${ms.toFixed(2)}ms`
formatTime(ms) == [na |-> FALSE, hundredths |-> Hundredths(ms)]

\* the text "N/A"
NotApplicable == [na |-> TRUE, hundredths |-> 0]

\* one console line of the reporter
Line(kind, name, cells, nums, text) ==
  [kind |-> kind, name |-> name, cells |-> cells, nums |-> nums, text |-> text]

\* ----------------------------------------------------------- printResults
\* the table row of one result (lines 378-403)
RowOf(result) ==
  LET shown == Positive(result.successRate) IN
  Line("row", result.name,
       << IF shown THEN formatTime(result.averages.sandboxCreationTime) ELSE NotApplicable,
          IF shown THEN formatTime(result.averages.fileCreationTime) ELSE NotApplicable,
          IF shown THEN formatTime(result.averages.totalTime) ELSE NotApplicable,
          IF shown THEN formatTime(result.statistics.standardDeviation.totalTime)
                   ELSE NotApplicable >>,
       << Round(Mul(result.successRate, Num(100))),
          Round(Mul(result.successRate, Num(result.totalRuns))),
          result.totalRuns >>,
       "")

\* a reporter that prints the min-max line for every result
MinMaxOfAlways(result) ==
  << Line("minmax", result.name,
          << formatTime(result.statistics.min.sandboxCreationTime),
             formatTime(result.statistics.max.sandboxCreationTime),
             formatTime(result.statistics.min.fileCreationTime),
             formatTime(result.statistics.max.fileCreationTime),
             formatTime(result.statistics.min.totalTime),
             formatTime(result.statistics.max.totalTime) >>,
          <<>>, "") >>

\* the min-max line of one result (lines 405-417)
MinMaxOf(result) ==
  IF Positive(result.successRate)
  THEN << Line("minmax", result.name,
               << formatTime(result.statistics.min.sandboxCreationTime),
                  formatTime(result.statistics.max.sandboxCreationTime),
                  formatTime(result.statistics.min.fileCreationTime),
                  formatTime(result.statistics.max.fileCreationTime),
                  formatTime(result.statistics.min.totalTime),
                  formatTime(result.statistics.max.totalTime) >>,
               <<>>, "") >>
  ELSE <<>>

HasError(run) == run.error # NoError /\ run.error # ""

\* the failed-run lines of one result in verbose mode (lines 419-428)
FailedLinesOf(result, cfg) ==
  IF Len(result.failedRuns) > 0 /\ cfg.verbose
  THEN LET withError == SelectSeq(result.failedRuns, HasError) IN
       << Line("failed-runs", result.name, <<>>,
               [k \in 1..Len(result.failedRuns) |-> result.failedRuns[k].runNumber], "") >>
       \o [k \in 1..Len(withError) |->
             Line("failed-run", result.name, <<>>, <<withError[k].runNumber>>,
                  withError[k].error)]
  ELSE <<>>

RECURSIVE TableLines(_, _)
\* results.forEach (lines 377-429)
TableLines(rs, cfg) ==
  IF Len(rs) = 0 THEN <<>>
  ELSE <<RowOf(Head(rs))>> \o MinMaxOf(Head(rs)) \o FailedLinesOf(Head(rs), cfg)
       \o TableLines(Tail(rs), cfg)

HasSuccess(result) == Positive(result.successRate)

\* a summary over all results, the ones without a successful run included
successfulResultsUnfiltered(rs) == rs

\* results.filter((r) => r.successRate > 0)
successfulResultsOf(rs) == SelectSeq(rs, HasSuccess)

\* the number a reduction compares
Metric(result, metric) ==
  IF metric = "average" THEN result.averages.totalTime
  ELSE result.statistics.standardDeviation.totalTime

\* a reducer that keeps the accumulator on a tie: metric(a) <= metric(b) ? a : b
PickKeepingOnTie(a, b, metric) ==
  IF ~Less(Metric(b, metric), Metric(a, metric)) THEN a ELSE b

\* the reducer (a, b) => metric(a) < metric(b) ? a : b
Pick(a, b, metric) == IF Less(Metric(a, metric), Metric(b, metric)) THEN a ELSE b

RECURSIVE ReduceFrom(_, _, _)
ReduceFrom(acc, rest, metric) ==
  IF Len(rest) = 0 THEN acc
  ELSE ReduceFrom(Pick(acc, Head(rest), metric), Tail(rest), metric)

\* array.reduce without an initial value, on a non-empty array
Reduce(rs, metric) == ReduceFrom(Head(rs), Tail(rs), metric)

\* successfulResults.length > 1
SummaryCond(successfulResults) == Len(successfulResults) > 1

\* the statistical summary (lines 431-456)
SummaryLines(rs) ==
  LET successfulResults == successfulResultsOf(rs) IN
  IF SummaryCond(successfulResults)
  THEN LET fastest == Reduce(successfulResults, "average")
           mostConsistent == Reduce(successfulResults, "stddev")
       IN << Line("summary-title", "", <<>>, <<>>, ""),
             Line("fastest", fastest.name,
                  <<formatTime(fastest.averages.totalTime)>>, <<>>, ""),
             Line("most-consistent", mostConsistent.name,
                  <<formatTime(mostConsistent.statistics.standardDeviation.totalTime)>>,
                  <<>>, ""),
             Line("confidence", "", <<>>, <<95>>, "") >>
  ELSE <<>>

\* one line of the individual run details (lines 462-477)
DetailOf(result, run) ==
  IF run.success
  THEN Line("run-ok", result.name,
            << formatTime(Num(run.sandboxCreationTime)),
               formatTime(Num(run.fileCreationTime)),
               formatTime(Num(run.totalTime)) >>,
            <<run.runNumber>>, "")
  ELSE Line("run-failed", result.name, <<>>, <<run.runNumber>>, run.error)

RECURSIVE DetailLines(_)
\* the individual run details of verbose mode (lines 458-479)
DetailLines(rs) ==
  IF Len(rs) = 0 THEN <<>>
  ELSE << Line("runs-of", Head(rs).name, <<>>, <<>>, "") >>
       \o [k \in 1..Len(Head(rs).runs) |-> DetailOf(Head(rs), Head(rs).runs[k])]
       \o DetailLines(Tail(rs))

printResults(rs, cfg) ==
  << Line("title", "", <<>>, <<cfg.runCount>>, ""),
     Line("header", "", <<>>, <<>>, ""),
     Line("rule", "", <<>>, <<>>, "") >>
  \o TableLines(rs, cfg)
  \o SummaryLines(rs)
  \o (IF cfg.verbose
      THEN << Line("details-title", "", <<>>, <<>>, "") >> \o DetailLines(rs)
      ELSE <<>>)

\* ----------------------------------------------------------- runBenchmark
\* a driver with one try block around the three sweeps: an escaped error
\* ends the sweeping
ResumeAbortingOnError ==
  /\ pc \in {"returned", "threw"}
  /\ results' = IF pc = "returned" THEN Append(results, ret) ELSE results
  /\ log' = IF pc = "threw" THEN Append(log, Ev("sweep-error", 0)) ELSE log
  /\ IF prov < Len(Providers) /\ pc = "returned"
     THEN prov' = prov + 1 /\ pc' = "call"
     ELSE prov' = prov /\ pc' = "report"
  /\ UNCHANGED <<config, i, runs, failedRuns, ret, inflight, report, maxArguments>>

\* await runner.runMultiple(...) settles: results.push when it resolved, the
\* catch block's console.error when it rejected; then the next provider's
\* try block is entered, or the reporting step is reached
Resume ==
  /\ pc \in {"returned", "threw"}
  /\ results' = IF pc = "returned" THEN Append(results, ret) ELSE results
  /\ log' = IF pc = "threw" THEN Append(log, Ev("sweep-error", 0)) ELSE log
  /\ IF prov < Len(Providers)
     THEN prov' = prov + 1 /\ pc' = "call"
     ELSE prov' = prov /\ pc' = "report"
  /\ UNCHANGED <<config, i, runs, failedRuns, ret, inflight, report, maxArguments>>

\* the empty-results message "No benchmark results to display"
NoResultsLine == Line("no-results", "", <<>>, <<>>, "")

\* a driver that prints the table only when some provider had a successful run
ReportLinesWhenSuccessful(rs, cfg) ==
  IF Len(successfulResultsOf(rs)) > 0 THEN printResults(rs, cfg) ELSE <<NoResultsLine>>

\* if (results.length > 0) printResults(...) else the empty-results message
ReportLines(rs, cfg) ==
  IF Len(rs) > 0 THEN printResults(rs, cfg) ELSE <<NoResultsLine>>

\* the reporting step of runBenchmark (lines 523-527)
Report ==
  /\ pc = "report"
  /\ report' = ReportLines(results, config)
  /\ pc' = "done"
  /\ UNCHANGED <<config, prov, i, runs, failedRuns, ret, results, inflight, log,
                 maxArguments>>

\* --------------------------------------------- the whole-program specification
DriverSamples == {okA, failedSample}
DriverThrown == {e \in Thrown : e.isError}

Init ==
  /\ config \in ConfigsUpTo(MaxDriverRunCount)
  /\ pc = "call"
  /\ prov = 1
  /\ i = 0
  /\ runs = <<>>
  /\ failedRuns = <<>>
  /\ ret = NoResult
  /\ results = <<>>
  /\ inflight = {}
  /\ log = <<>>
  /\ report = <<>>
  /\ maxArguments = ArgumentLimit

DriverFulfilled == \E singleResult \in DriverSamples : SampleReturns(singleResult)
DriverRejected == \E error \in DriverThrown : SampleThrows(error)

Next == Enter \/ DriverFulfilled \/ DriverRejected \/ DelayElapsed \/ Resume \/ Report

Spec == Init /\ [][Next]_vars

\* ------------------------------------------------- the escape specification
\* The whole program on an engine whose argument limit is scaled down with
\* the run counts, so that a sweep can have more successful runs than one
\* call takes arguments: calculateResult then throws and the promise of
\* runMultiple rejects.
EscapeInit ==
  /\ config \in ConfigsUpTo(MaxDriverRunCount)
  /\ pc = "call"
  /\ prov = 1
  /\ i = 0
  /\ runs = <<>>
  /\ failedRuns = <<>>
  /\ ret = NoResult
  /\ results = <<>>
  /\ inflight = {}
  /\ log = <<>>
  /\ report = <<>>
  /\ maxArguments = MaxEscapeArguments

EscapeNext == Enter \/ DriverFulfilled \/ DriverRejected \/ DelayElapsed \/ Resume \/ Report

EscapeSpec == EscapeInit /\ [][EscapeNext]_vars

\* ------------------------------------------------ the reporter specification
\* The reporting step of runBenchmark on the results of three sweeps, each
\* sweep given by the run sequence runMultiple can end with under the
\* configuration (lines 40-90): the configured number of runs, or fewer
\* when fail-fast stopped the sweep at its first failed run.
ReportRuns(k) == {MakeRun(k, singleResult) : singleResult \in Samples}

SweepRuns(cfg) ==
  LET full == IF cfg.runCount > 0 THEN cfg.runCount ELSE 0 IN
  UNION { { rs \in [1..n -> UNION {ReportRuns(k) : k \in 1..n}] :
              /\ \A k \in 1..n : rs[k].runNumber = k
              /\ cfg.failFast => \A k \in 1..(n - 1) : rs[k].success
              /\ n = full \/ (cfg.failFast /\ n >= 1 /\ ~rs[n].success) }
          : n \in 0..full }

NotSuccess(r) == ~r.success

SweepResult(name, rs) == calculateResult(name, rs, SelectSeq(rs, NotSuccess))

ReportInit ==
  /\ config \in {c \in ConfigsUpTo(MaxReportRunCount) : c.delayBetweenRuns = 0}
  /\ pc = "report"
  /\ prov = Len(Providers)
  /\ \E r1 \in SweepRuns(config), r2 \in SweepRuns(config), r3 \in SweepRuns(config) :
       /\ results = << SweepResult(Providers[1], r1), SweepResult(Providers[2], r2),
                       SweepResult(Providers[3], r3) >>
       /\ runs = r3
       /\ failedRuns = SelectSeq(r3, NotSuccess)
       /\ ret = SweepResult(Providers[3], r3)
       /\ i = IF config.failFast /\ Len(r3) >= 1 /\ ~r3[Len(r3)].success
              THEN Len(r3) ELSE Len(r3) + 1
  /\ inflight = {}
  /\ log = <<>>
  /\ report = <<>>
  /\ maxArguments = ArgumentLimit

ReportNext == Report

ReportSpec == ReportInit /\ [][ReportNext]_vars

\* ================================================================ claims
\* the number of runs of a sequence with success = true
SuccessCount(rs) == Cardinality({k \in 1..Len(rs) : rs[k].success})

\* the number of sample-source invocations of the current sweep
InvokeCount ==
  Cardinality({j \in 1..Len(log) : log[j].kind = "invoke" /\ log[j].name = providerName})

\* C1 (as stated): in every result of runMultiple, len(runs) =
\* successfulCount + len(failedRuns), totalRuns = len(runs), and
\* successfulCount <= totalRuns <= configured runCount, for any run count.
C1_AsStated ==
  pc = "returned" =>
    /\ Len(ret.runs) = SuccessCount(ret.runs) + Len(ret.failedRuns)
    /\ ret.totalRuns = Len(ret.runs)
    /\ SuccessCount(ret.runs) <= ret.totalRuns
    /\ ret.totalRuns <= config.runCount

\* C1 (amended): in every result of runMultiple, len(runs) =
\* successfulCount + len(failedRuns), totalRuns = len(runs), and
\* successfulCount <= totalRuns; totalRuns <= runCount when runCount >= 0,
\* and totalRuns = 0 when runCount is negative.
C1_Counts ==
  pc = "returned" =>
    /\ Len(ret.runs) = SuccessCount(ret.runs) + Len(ret.failedRuns)
    /\ ret.totalRuns = Len(ret.runs)
    /\ SuccessCount(ret.runs) <= ret.totalRuns
    /\ config.runCount >= 0 => ret.totalRuns <= config.runCount
    /\ config.runCount < 0 => ret.totalRuns = 0

\* a sweep that returned with a successful run, a returned failure and a
\* thrown error among its runs
C1_Witness ==
  /\ pc = "returned"
  /\ \E a, b, c \in 1..Len(ret.runs) :
       /\ ret.runs[a].success
       /\ ~ret.runs[b].success /\ ret.runs[b].totalTime > 0
       /\ ~ret.runs[c].success /\ ret.runs[c].error = "boom"

\* C2 (as stated): in every result of runMultiple, successRate equals
\* successfulCount / totalRuns, lies in [0,1], and is 0 exactly when
\* failedRuns.length = totalRuns.
C2_AsStated ==
  pc = "returned" =>
    /\ ret.successRate = Frac(SuccessCount(ret.runs), ret.totalRuns)
    /\ ret.successRate.d > 0
    /\ 0 <= ret.successRate.n /\ ret.successRate.n <= ret.successRate.d
    /\ ret.successRate = Zero <=> Len(ret.failedRuns) = ret.totalRuns

\* C2 (amended): in every result of runMultiple, successRate is a number in
\* [0,1]; when totalRuns > 0 it equals successfulCount / totalRuns, when
\* totalRuns = 0 it is 0 (the quotient 0/0 is not a number); and it is 0
\* exactly when failedRuns.length = totalRuns.
C2_SuccessRate ==
  pc = "returned" =>
    /\ ret.successRate.d > 0 /\ ~ret.successRate.rad
    /\ 0 <= ret.successRate.n /\ ret.successRate.n <= ret.successRate.d
    /\ ret.totalRuns > 0 =>
         ret.successRate.n * ret.totalRuns = SuccessCount(ret.runs) * ret.successRate.d
    /\ ret.totalRuns = 0 => ret.successRate.n = 0
    /\ ret.successRate.n = 0 <=> Len(ret.failedRuns) = ret.totalRuns

\* a sweep stopped by fail-fast before the configured run count, with a
\* success rate strictly between 0 and 1
C2_Witness ==
  /\ pc = "returned"
  /\ ret.totalRuns < config.runCount
  /\ 0 < ret.successRate.n /\ ret.successRate.n < ret.successRate.d

\* C3: when no run of a sweep succeeded, every averages field, every
\* standard-deviation, min and max field and successRate is 0, while runs and
\* failedRuns both hold every attempted run, in order.
C3_ZeroSuccess ==
  (pc = "returned" /\ SuccessCount(runs) = 0) =>
    /\ \A dim \in Dims :
         /\ ret.averages[dim] = Zero
         /\ ret.statistics.standardDeviation[dim] = Zero
         /\ ret.statistics.min[dim] = Zero
         /\ ret.statistics.max[dim] = Zero
    /\ ret.successRate = Zero
    /\ Len(ret.runs) = InvokeCount
    /\ ret.failedRuns = ret.runs
    /\ \A k \in 1..Len(ret.runs) : ret.runs[k].runNumber = k

\* a sweep of two failed runs, one of them a returned failure that carries a
\* non-zero total time
C3_Witness ==
  /\ pc = "returned"
  /\ SuccessCount(runs) = 0
  /\ Len(ret.runs) = 2
  /\ \E k \in 1..2 : ret.runs[k].totalTime > 0

\* the run indices of the current sweep whose invocation failed: it returned
\* success = false, or it threw
FailedIndices ==
  {log[j].run : j \in {j \in 1..Len(log) :
                         /\ log[j].name = providerName
                         /\ log[j].kind \in {"fulfilled", "rejected"}
                         /\ ~log[j].ok}}

\* C4: with failFast = true and runCount >= 1, the sample source is never
\* invoked again after the first unsuccessful run (returned or thrown) of the
\* sweep, so a sample source that always fails yields totalRuns = 1.
C4_FailFast ==
  (config.failFast /\ config.runCount >= 1) =>
    /\ FailedIndices # {} =>
         /\ pc = "returned"
         /\ Cardinality(FailedIndices) = 1
         /\ InvokeCount = Len(runs)
         /\ FailedIndices = {Len(runs)}
         /\ inflight = {}
    /\ (pc = "returned" /\ SuccessCount(ret.runs) = 0) =>
         ret.totalRuns = 1 /\ InvokeCount = 1

\* a fail-fast sweep configured for several runs that stopped after its
\* first run threw
C4_Witness ==
  /\ pc = "returned"
  /\ config.failFast
  /\ config.runCount >= 3
  /\ ret.totalRuns = 1
  /\ ret.runs[1].error = "boom"

\* the failed runs are exactly the runs whose invocation failed, in run
\* order, each carrying its index
FailedRunsExact ==
  /\ {ret.failedRuns[j].runNumber : j \in 1..Len(ret.failedRuns)} = FailedIndices
  /\ \A j \in 1..Len(ret.failedRuns) :
       /\ ret.failedRuns[j].runNumber \in 1..Len(ret.runs)
       /\ ret.failedRuns[j] = ret.runs[ret.failedRuns[j].runNumber]
       /\ ~ret.failedRuns[j].success
  /\ \A j \in 1..(Len(ret.failedRuns) - 1) :
       ret.failedRuns[j].runNumber < ret.failedRuns[j + 1].runNumber
  /\ \A k \in 1..Len(ret.runs) : ret.runs[k].runNumber = k

\* C5 (as stated): with failFast = false, totalRuns = configured runCount
\* whatever the outcomes, and failedRuns contains exactly the runs that
\* failed, in run order, each carrying the index at which it failed.
C5_AsStated ==
  (pc = "returned" /\ ~config.failFast) =>
    /\ ret.totalRuns = config.runCount
    /\ FailedRunsExact

\* C5 (amended): with failFast = false, totalRuns = configured runCount
\* whatever the outcomes when runCount >= 0 (and 0 when runCount is
\* negative), and failedRuns contains exactly the runs that failed, in run
\* order, each carrying the index at which it failed.
C5_NoFailFast ==
  (pc = "returned" /\ ~config.failFast) =>
    /\ config.runCount >= 0 => ret.totalRuns = config.runCount
    /\ config.runCount < 0 => ret.totalRuns = 0
    /\ FailedRunsExact

\* a sweep of four runs without fail-fast that failed on run 3 only
C5_Witness ==
  /\ pc = "returned"
  /\ ~config.failFast
  /\ config.runCount = 4
  /\ ret.totalRuns = 4
  /\ Len(ret.failedRuns) = 1
  /\ ret.failedRuns[1].runNumber = 3

RECURSIVE SumOfSuccessful(_, _)
\* the sum of one duration over the successful runs of a sequence
SumOfSuccessful(rs, dim) ==
  IF Len(rs) = 0 THEN 0
  ELSE (IF Head(rs).success THEN Head(rs)[dim] ELSE 0) + SumOfSuccessful(Tail(rs), dim)

\* one duration of the successful runs of a sequence, as a set
SuccessfulValues(rs, dim) == {rs[k][dim] : k \in {k \in 1..Len(rs) : rs[k].success}}

\* C7: for each duration, the result's average, min and max are the mean,
\* minimum and maximum of that duration over exactly the successful runs;
\* if every run succeeds with the same sample, the averages, min and max
\* equal that sample, the standard deviations are 0 and successRate is 1.
C7_SuccessfulOnly ==
  (pc = "returned" /\ SuccessCount(ret.runs) > 0) =>
    /\ \A dim \in Dims :
         LET avg == ret.averages[dim]
             lo == ret.statistics.min[dim]
             hi == ret.statistics.max[dim]
             vals == SuccessfulValues(ret.runs, dim)
         IN /\ avg.d > 0 /\ ~avg.rad
            /\ avg.n * SuccessCount(ret.runs) = SumOfSuccessful(ret.runs, dim) * avg.d
            /\ lo.d = 1 /\ ~lo.rad /\ lo.n \in vals /\ \A v \in vals : lo.n <= v
            /\ hi.d = 1 /\ ~hi.rad /\ hi.n \in vals /\ \A v \in vals : hi.n >= v
    /\ (\A k \in 1..Len(ret.runs) :
          ret.runs[k].success /\ \A dim \in Dims : ret.runs[k][dim] = ret.runs[1][dim]) =>
         /\ \A dim \in Dims :
              /\ ret.averages[dim] = [n |-> ret.runs[1][dim], d |-> 1, rad |-> FALSE]
              /\ ret.statistics.min[dim] = ret.averages[dim]
              /\ ret.statistics.max[dim] = ret.averages[dim]
              /\ ret.statistics.standardDeviation[dim] = [n |-> 0, d |-> 1, rad |-> FALSE]
         /\ ret.successRate = [n |-> 1, d |-> 1, rad |-> FALSE]

\* a sweep with two different successful runs, a returned failure with a
\* non-zero total time and a thrown run
C7_Witness ==
  /\ pc = "returned"
  /\ Len(ret.runs) = 4
  /\ \E a, b, c, e \in 1..4 :
       /\ ret.runs[a].success /\ ret.runs[b].success
       /\ ret.runs[a].totalTime # ret.runs[b].totalTime
       /\ ~ret.runs[c].success /\ ret.runs[c].totalTime > 0
       /\ ~ret.runs[e].success /\ ret.runs[e].totalTime = 0

\* the number of log entries of the given kinds among the first j
CountKinds(kinds, j) == Cardinality({h \in 1..j : log[h].kind \in kinds})

\* the position of a provider in the fixed order
ProviderIndex(name) == CHOOSE p \in 1..Len(Providers) : Providers[p] = name

\* C8: at most one sample-source invocation is in flight at any time, an
\* invocation starts only after every earlier invocation has completed
\* (returned or thrown), and a provider's sweep starts only after the sweep
\* of the previous provider has returned, whose log entries all precede it.
C8_Sequential ==
  /\ Cardinality(inflight) <= 1
  /\ Cardinality(inflight) =
       CountKinds({"invoke"}, Len(log)) - CountKinds({"fulfilled", "rejected"}, Len(log))
  /\ \A j \in 1..Len(log) :
       /\ log[j].kind = "invoke" =>
            CountKinds({"invoke"}, j - 1) = CountKinds({"fulfilled", "rejected"}, j - 1)
       /\ (log[j].kind = "start" /\ ProviderIndex(log[j].name) > 1) =>
            /\ \E h \in 1..(j - 1) :
                 /\ log[h].kind = "return"
                 /\ ProviderIndex(log[h].name) = ProviderIndex(log[j].name) - 1
            /\ \A h \in 1..Len(log) :
                 ProviderIndex(log[h].name) < ProviderIndex(log[j].name) => h < j

\* the third provider's second invocation in flight, after the sweeps of the
\* first two providers have returned their results
C8_Witness ==
  /\ pc = "await"
  /\ prov = 3
  /\ i = 2
  /\ Len(results) = 2
  /\ inflight = {[name |-> "Blaxel", run |-> 2]}

\* the positions in results of the providers with a non-zero success rate
WithSuccess == {k \in 1..Len(results) : results[k].successRate.n > 0}

\* the lines of the report of one kind
LinesOf(kind) == {j \in 1..Len(report) : report[j].kind = kind}

\* x < y for two averages (rationals) or two standard deviations (square
\* roots of rationals, compared by their squares)
Lower(x, y) ==
  LET xx == IF x.rad THEN <<x.n, x.d>> ELSE <<x.n * x.n, x.d * x.d>>
      yy == IF y.rad THEN <<y.n, y.d>> ELSE <<y.n * y.n, y.d * y.d>>
  IN xx[1] * yy[2] < yy[1] * xx[2]

AverageTotal(k) == results[k].averages.totalTime
DeviationTotal(k) == results[k].statistics.standardDeviation.totalTime

\* the providers with a non-zero success rate that no other such provider beats
LowestAverage == {k \in WithSuccess : \A h \in WithSuccess : ~Lower(AverageTotal(h), AverageTotal(k))}
LowestDeviation ==
  {k \in WithSuccess : \A h \in WithSuccess : ~Lower(DeviationTotal(h), DeviationTotal(k))}

First(S) == CHOOSE k \in S : \A h \in S : k <= h
Last(S) == CHOOSE k \in S : \A h \in S : k >= h

\* the provider a summary line names
Named(kind) == report[CHOOSE j \in LinesOf(kind) : TRUE].name

\* C9 (as stated): in the narrative summary, 'fastest' is the provider with
\* the lowest average total time and 'most consistent' the provider with the
\* lowest standard deviation of total time among the providers with non-zero
\* success rate; on a tie the one that comes first in results is selected.
C9_AsStated ==
  (pc = "done" /\ LinesOf("fastest") # {}) =>
    /\ Named("fastest") = results[First(LowestAverage)].name
    /\ Named("most-consistent") = results[First(LowestDeviation)].name

\* C9 (amended): in the narrative summary, 'fastest' is the provider with
\* the lowest average total time and 'most consistent' the provider with the
\* lowest standard deviation of total time among the providers with non-zero
\* success rate; on a tie the one that comes last in results is selected.
C9_LowestLastOnTie ==
  (pc = "done" /\ LinesOf("fastest") # {}) =>
    /\ Cardinality(LinesOf("fastest")) = 1
    /\ Cardinality(LinesOf("most-consistent")) = 1
    /\ Named("fastest") = results[Last(LowestAverage)].name
    /\ Named("most-consistent") = results[Last(LowestDeviation)].name
    /\ \A j \in LinesOf("fastest") :
         report[j].cells = <<formatTime(AverageTotal(Last(LowestAverage)))>>

\* a summary over three successful providers where the first and the last
\* tie on the lowest average and on the lowest deviation, and the second has
\* a higher average and a non-zero deviation
C9_Witness ==
  /\ pc = "done"
  /\ WithSuccess = {1, 2, 3}
  /\ LowestAverage = {1, 3}
  /\ LowestDeviation = {1, 3}
  /\ Lower(DeviationTotal(1), DeviationTotal(2))
  /\ Named("fastest") = "Blaxel"
  /\ Named("most-consistent") = "Blaxel"

SummaryKinds == {"summary-title", "fastest", "most-consistent", "confidence"}

\* C10: the reporter emits the narrative summary if and only if at least two
\* providers in the results have a non-zero success rate, and the provider
\* it names as fastest or most consistent always has a non-zero success rate.
C10_SummaryOnlySuccessful ==
  pc = "done" =>
    /\ \A kind \in SummaryKinds :
         Cardinality(LinesOf(kind)) = IF Cardinality(WithSuccess) >= 2 THEN 1 ELSE 0
    /\ \A j \in LinesOf("fastest") \cup LinesOf("most-consistent") :
         \E k \in WithSuccess : results[k].name = report[j].name

\* a summary over two successful providers while the third has no successful
\* run and so an average and a standard deviation of 0
C10_Witness ==
  /\ pc = "done"
  /\ WithSuccess = {2, 3}
  /\ results[1].totalRuns = 2
  /\ AverageTotal(1) = [n |-> 0, d |-> 1, rad |-> FALSE]
  /\ LinesOf("fastest") # {}
  /\ Named("fastest") = "Daytona"

IsRow(line) == line.kind = "row"

\* the table rows of the report, in the order they were printed
RowLines == SelectSeq(report, IsRow)

AverageDims == <<"sandboxCreationTime", "fileCreationTime", "totalTime">>

\* h hundredths is a nearest two-decimal rendering of the rational number a
NearestHundredths(a, h) ==
  /\ ~a.rad /\ a.d > 0
  /\ 2 * Abs(100 * a.n - h * a.d) <= a.d

\* the min-max lines of the report that carry the name of results[k]
RangeLines(k) == {j \in LinesOf("minmax") : report[j].name = results[k].name}

\* C11: the reporter prints one row per result in the order the results
\* were collected; for a result whose success rate is zero the three
\* averages are rendered as the not-applicable marker and no min-max line is
\* printed, and for a result whose success rate is greater than zero the
\* formatted averages and exactly one min-max line are printed.
C11_Rows ==
  (pc = "done" /\ Len(results) > 0) =>
    /\ Len(RowLines) = Len(results)
    /\ \A k \in 1..Len(results) :
         /\ RowLines[k].name = results[k].name
         /\ IF results[k].successRate.n = 0
            THEN /\ \A c \in 1..3 : RowLines[k].cells[c] = NotApplicable
                 /\ RangeLines(k) = {}
            ELSE /\ \A c \in 1..3 :
                      /\ ~RowLines[k].cells[c].na
                      /\ NearestHundredths(results[k].averages[AverageDims[c]],
                                           RowLines[k].cells[c].hundredths)
                 /\ Cardinality(RangeLines(k)) = 1
                 /\ \A j \in RangeLines(k) : j > 1 /\ report[j - 1] = RowLines[k]

\* a report of three results where the first provider failed both of its
\* runs and the second succeeded in one of two, with an average that is
\* not zero
C11_Witness ==
  /\ pc = "done"
  /\ Len(results) = 3
  /\ results[1].totalRuns = 2 /\ results[1].successRate.n = 0
  /\ results[2].totalRuns = 2 /\ results[2].successRate = Frac(1, 2)
  /\ RowLines[1].cells[3] = NotApplicable
  /\ RowLines[2].cells[3] = [na |-> FALSE, hundredths |-> 400]
  /\ RangeLines(1) = {} /\ RangeLines(2) # {}

\* the sweep of provider p rejected and the driver logged the error
Escaped(p) ==
  \E j \in 1..Len(log) : log[j].kind = "sweep-error" /\ log[j].name = Providers[p]

\* the sweep of provider p was started
Started(p) ==
  \E j \in 1..Len(log) : log[j].kind = "start" /\ log[j].name = Providers[p]

\* provider p has an entry in results
Collected(p) == \E k \in 1..Len(results) : results[k].name = Providers[p]

\* C12: if an error escapes runMultiple for one provider, the driver catches
\* it, that provider is omitted from the results passed to the reporter,
\* every other provider's sweep still runs, and the remaining results keep
\* the fixed provider order (E2B, Daytona, Blaxel).
C12_EscapeOmitted ==
  /\ \A p \in 1..Len(Providers) : Escaped(p) => ~Collected(p)
  /\ \A a, b \in 1..Len(results) :
       a < b => ProviderIndex(results[a].name) < ProviderIndex(results[b].name)
  /\ pc = "threw" => (~Collected(prov) /\ \A p \in 1..(prov - 1) : Started(p))
  /\ pc \in {"report", "done"} =>
       \A p \in 1..Len(Providers) : Started(p) /\ (Collected(p) <=> ~Escaped(p))
  /\ (pc = "done" /\ Len(results) > 0) =>
       /\ Len(RowLines) = Len(results)
       /\ \A k \in 1..Len(results) : RowLines[k].name = results[k].name

\* a finished program whose second sweep rejected: the third sweep was
\* started after the error was logged, and the report has the rows of the
\* first and the third provider, in that order
C12_Witness ==
  /\ pc = "done"
  /\ Escaped(2)
  /\ \E j, h \in 1..Len(log) :
       /\ j < h
       /\ log[j].kind = "sweep-error" /\ log[j].name = "Daytona"
       /\ log[h].kind = "start" /\ log[h].name = "Blaxel"
  /\ Len(results) = 2
  /\ results[1].name = "E2B" /\ results[2].name = "Blaxel"
  /\ Len(RowLines) = 2
  /\ RowLines[1].name = "E2B" /\ RowLines[2].name = "Blaxel"

\* no sample-source invocation of the whole program returned a success
NoSuccessAnywhere == \A j \in 1..Len(log) : log[j].kind = "fulfilled" => ~log[j].ok

\* C13 (as stated): when no provider has any successful run, the program
\* reports an empty-results message instead of the results table.
C13_AsStated ==
  (pc = "done" /\ NoSuccessAnywhere) => report = <<NoResultsLine>>

\* C13 (amended): when no provider has any successful run, the program does
\* not crash and prints the results table, with one row per provider whose
\* averages are the not-applicable marker, no min-max line and no narrative
\* summary; the empty-results message is reported exactly when the results
\* collection is empty, which takes every provider's sweep to reject.
C13_TableOfNotApplicable ==
  /\ (pc = "report" /\ NoSuccessAnywhere) =>
       (Len(results) = Len(Providers) /\ \A p \in 1..Len(Providers) : ~Escaped(p))
  /\ pc = "done" =>
       /\ report = <<NoResultsLine>> <=> Len(results) = 0
       /\ Len(results) = 0 <=> \A p \in 1..Len(Providers) : Escaped(p)
       /\ NoSuccessAnywhere =>
            /\ Len(results) = Len(Providers)
            /\ report[1].kind = "title"
            /\ Len(RowLines) = Len(Providers)
            /\ \A k \in 1..Len(RowLines) :
                 /\ RowLines[k].name = Providers[k]
                 /\ \A c \in 1..3 : RowLines[k].cells[c] = NotApplicable
            /\ LinesOf("minmax") = {}
            /\ \A kind \in SummaryKinds : LinesOf(kind) = {}

\* a finished program where every provider attempted two runs and all six
\* failed, some by a returned failure and some by a thrown error: the report
\* is the table
C13_Witness ==
  /\ pc = "done"
  /\ NoSuccessAnywhere
  /\ Len(results) = 3
  /\ \A k \in 1..3 : results[k].totalRuns = 2 /\ Len(results[k].failedRuns) = 2
  /\ \E j \in 1..Len(log) : log[j].kind = "fulfilled"
  /\ \E j \in 1..Len(log) : log[j].kind = "rejected"
  /\ Len(RowLines) = 3
  /\ RowLines[2].cells[3] = NotApplicable
  /\ LinesOf("no-results") = {}

\* the log entries of one kind about run k of the current sweep
EventsOf(kinds, k) ==
  {j \in 1..Len(log) : log[j].kind \in kinds /\ log[j].name = providerName /\ log[j].run = k}

\* C14: in a sweep with delayBetweenRuns > 0, after every attempted run
\* that is not the last configured run and does not trigger a fail-fast
\* stop, the runner suspends for the inter-run delay before the next sample
\* invocation, whether that run succeeded, returned a failure or threw; no
\* delay occurs after the last configured run or when delayBetweenRuns is 0.
C14_DelayAfterEveryRun ==
  /\ \A j \in 1..Len(log) :
       (log[j].kind = "invoke" /\ log[j].run > 1 /\ config.delayBetweenRuns > 0) =>
         \E h \in EventsOf({"delay"}, log[j].run - 1) : h < j
  /\ \A j \in 1..Len(log) :
       log[j].kind = "delay" =>
         (config.delayBetweenRuns > 0 /\ log[j].run < config.runCount)

ProgressKinds == {"progress-line", "progress-symbol"}

\* C16: every attempted run that does not trigger a fail-fast stop emits
\* exactly one progress signal (one line in verbose mode, one symbol
\* otherwise), whether the sample source returned a success, returned a
\* failure, or threw; so with failFast off the number of progress signals
\* of a sweep equals totalRuns.
C16_ProgressPerRun ==
  /\ \A j \in 1..Len(log) :
       (log[j].kind \in {"fulfilled", "rejected"} /\ ~(config.failFast /\ ~log[j].ok)) =>
         /\ Cardinality(EventsOf(ProgressKinds, log[j].run)) = 1
         /\ \A h \in EventsOf(ProgressKinds, log[j].run) :
              /\ h > j
              /\ log[h].kind = IF config.verbose THEN "progress-line" ELSE "progress-symbol"
  /\ (pc = "returned" /\ ~config.failFast) =>
       CountKinds(ProgressKinds, Len(log)) = ret.totalRuns

====
